---------------------------- MODULE Spec2Model ----------------------------
(***************************************************************************)
(* A model of backend/app.py: the session store (save, list, load, rename, *)
(* delete of lesson sessions kept as one directory per session) and the    *)
(* download assembler, and generate_audio, the build of a lesson's         *)
(* segments from the answers of the translation and the speech service.    *)
(* save_session is modelled twice: as one step (SaveSession), and step by   *)
(* step for two requests handled at the same time (Create...).             *)
(*                                                                         *)
(* Strings are sequences of character codes (32 is a space, 10 a newline,  *)
(* 61 is "="), byte strings are sequences of numbers in 0..255, and        *)
(* Python's None is the value None below.  The storage fault model is one  *)
(* fault per request at most: a write or a read may raise, and so may      *)
(* the rmtree of delete_session; the clean-up rmtree that follows a        *)
(* failed write in save_session is then not hit by a second fault.         *)
(***************************************************************************)
EXTENDS Integers, Sequences, FiniteSets, TLC

VARIABLES
    fs,       \* the sessions directory: directory id -> its manifest and audio files
    last,     \* the response of the last request handled
    orig,     \* history: id -> the request that created it, until its directory changes
    gone,     \* history: the ids deleted and not allocated again since
    reqs,     \* the save requests the client of this behaviour may send
    cap,      \* the highest session id this behaviour allocates
    dl,       \* the download request under consideration (variant, segments)
    build,    \* the run of generate_audio in progress: its position and its locals
    procs     \* the save_session requests in progress at the same time, by worker

vars == <<fs, last, orig, gone, reqs, cap, dl, build, procs>>

(***************************** values ************************************)

None == <<-1>>

DecodeError == <<-2>>

\* Python truthiness of an optional string or bytes value.
Truthy(x) == x # None /\ x # <<>>

\* a or b
Or(a, b) == IF Truthy(a) THEN a ELSE b

\* (x or "")
OrEmpty(x) == Or(x, <<>>)

IsSpace(c) == c \in {9, 10, 11, 12, 13, 32}

RECURSIVE LStrip(_)
LStrip(s) == IF s # <<>> /\ IsSpace(Head(s)) THEN LStrip(Tail(s)) ELSE s

RECURSIVE RStrip(_)
RStrip(s) ==
    IF s # <<>> /\ IsSpace(s[Len(s)]) THEN RStrip(SubSeq(s, 1, Len(s) - 1)) ELSE s

\* str.strip()
Strip(s) == RStrip(LStrip(s))

\* str(n) for n >= 0
RECURSIVE Str(_)
Str(n) == IF n < 10 THEN <<48 + n>> ELSE Str(n \div 10) \o <<48 + (n % 10)>>

\* f"{n:03d}"
Fmt03(n) ==
    LET s == Str(n)
    IN  IF Len(s) >= 3 THEN s
        ELSE IF Len(s) = 2 THEN <<48>> \o s
        ELSE <<48, 48>> \o s

\* f"Lesson {n}"
LessonTitle(n) == <<76, 101, 115, 115, 111, 110, 32>> \o Str(n)

(***************************** base64 ************************************)

B64Char(v) ==
    IF v < 26 THEN 65 + v
    ELSE IF v < 52 THEN 97 + (v - 26)
    ELSE IF v < 62 THEN 48 + (v - 52)
    ELSE IF v = 62 THEN 43
    ELSE 47

\* The value of an alphabet character, 64 for any other character.
B64Value(c) ==
    IF c \in 65..90 THEN c - 65
    ELSE IF c \in 97..122 THEN c - 71
    ELSE IF c \in 48..57 THEN c + 4
    ELSE IF c = 43 THEN 62
    ELSE IF c = 47 THEN 63
    ELSE 64

RECURSIVE b64encode(_)
b64encode(bs) ==
    IF bs = <<>> THEN <<>>
    ELSE IF Len(bs) = 1
        THEN <<B64Char(bs[1] \div 4), B64Char((bs[1] % 4) * 16), 61, 61>>
    ELSE IF Len(bs) = 2
        THEN <<B64Char(bs[1] \div 4),
               B64Char((bs[1] % 4) * 16 + (bs[2] \div 16)),
               B64Char((bs[2] % 16) * 4), 61>>
    ELSE <<B64Char(bs[1] \div 4),
           B64Char((bs[1] % 4) * 16 + (bs[2] \div 16)),
           B64Char((bs[2] % 16) * 4 + (bs[3] \div 64)),
           B64Char(bs[3] % 64)>> \o b64encode(SubSeq(bs, 4, Len(bs)))

\* binascii.a2b_base64 in its default, non-strict mode: characters outside the
\* alphabet are skipped, a pad that completes a quad ends the input, and input
\* that ends inside a quad is an error.
RECURSIVE A2B(_, _, _, _, _, _)
A2B(s, i, quad, left, pads, out) ==
    IF i > Len(s) THEN (IF quad # 0 THEN DecodeError ELSE out)
    ELSE IF s[i] = 61 THEN
        IF quad >= 2 /\ quad + pads + 1 >= 4 THEN out
        ELSE A2B(s, i + 1, quad, left, IF quad >= 2 THEN pads + 1 ELSE pads, out)
    ELSE IF B64Value(s[i]) >= 64 THEN A2B(s, i + 1, quad, left, pads, out)
    ELSE LET v == B64Value(s[i])
         IN  CASE quad = 0 -> A2B(s, i + 1, 1, v, 0, out)
               [] quad = 1 ->
                    A2B(s, i + 1, 2, v % 16, 0, Append(out, left * 4 + (v \div 16)))
               [] quad = 2 ->
                    A2B(s, i + 1, 3, v % 4, 0, Append(out, left * 16 + (v \div 4)))
               [] OTHER -> A2B(s, i + 1, 0, 0, 0, Append(out, left * 64 + v))

\* base64.b64decode(s): the bytes, or DecodeError where it raises.
b64decode(s) == A2B(s, 1, 0, 0, 0, <<>>)

(***************************** storage ***********************************)

\* f"segment_{index:03d}_fr.mp3" and f"segment_{index:03d}_en.mp3"
SegmentFile(index, lang) ==
    <<115, 101, 103, 109, 101, 110, 116, 95>> \o Fmt03(index) \o <<95>> \o lang
        \o <<46, 109, 112, 51>>

\* f"segment_{index:03d}_kv_{vocab_index:03d}_fr.mp3" and its _en twin
VocabFile(index, vocabIndex, lang) ==
    <<115, 101, 103, 109, 101, 110, 116, 95>> \o Fmt03(index) \o <<95, 107, 118, 95>>
        \o Fmt03(vocabIndex) \o <<95>> \o lang \o <<46, 109, 112, 51>>

Fr == <<102, 114>>

En == <<101, 110>>

\* _write_audio_file: the name it returns (None when it writes nothing).
WrittenName(filename, audio) ==
    IF ~Truthy(audio) THEN None
    ELSE IF b64decode(audio) = DecodeError THEN None
    ELSE filename

\* _write_audio_file: the files it leaves, as a set of <<name, bytes>>.
WrittenFiles(filename, audio) ==
    IF WrittenName(filename, audio) = None THEN {}
    ELSE {<<filename, b64decode(audio)>>}

\* _read_audio_file_as_base64 on the files of one session directory.
ReadAudio(files, filename) ==
    IF ~Truthy(filename) THEN None
    ELSE IF filename \notin DOMAIN files THEN None
    ELSE b64encode(files[filename])

\* A manifest.json: absent, a parseable document, or a file json.load rejects.
NoDoc == [title |-> None, raw_text |-> None, segments |-> <<>>]

NoManifest == [state |-> "absent", doc |-> NoDoc]

CorruptManifest == [state |-> "corrupt", doc |-> NoDoc]

GoodManifest(doc) == [state |-> "ok", doc |-> doc]

NoFiles == [f \in {} |-> <<>>]

FilesOf(pairs) == [f \in {p[1] : p \in pairs} |-> (CHOOSE p \in pairs : p[1] = f)[2]]

(***************************** save_session ******************************)

\* The id a segment or vocab dict carries when it has no "id" key.
NoId == -1

NoList == [isList |-> FALSE, items |-> <<>>]

List(items) == [isList |-> TRUE, items |-> items]

\* segment.get("key_vocab") or segment.get("keyVocab") or [], when it is a list
SaveKeyVocab(seg) ==
    IF seg.key_vocab.isList /\ seg.key_vocab.items # <<>> THEN seg.key_vocab.items
    ELSE IF seg.keyVocab.isList /\ seg.keyVocab.items # <<>> THEN seg.keyVocab.items
    ELSE <<>>

ManifestVocab(index, vocabIndex, vocab) ==
    [id |-> IF vocab.id = None THEN Str(index) \o <<45>> \o Str(vocabIndex) ELSE vocab.id,
     french |-> Strip(OrEmpty(vocab.french)),
     english |-> Strip(OrEmpty(vocab.english)),
     audio_fr_file |-> WrittenName(VocabFile(index, vocabIndex, Fr), vocab.audio_fr),
     audio_en_file |-> WrittenName(VocabFile(index, vocabIndex, En), vocab.audio_en)]

ManifestSegment(index, seg) ==
    [id |-> IF seg.id = NoId THEN index ELSE seg.id,
     french |-> Strip(OrEmpty(seg.french)),
     english |-> Strip(OrEmpty(seg.english)),
     audio_fr_file |-> WrittenName(SegmentFile(index, Fr), seg.audio_fr),
     audio_en_file |-> WrittenName(SegmentFile(index, En), seg.audio_en),
     key_vocab |-> [j \in 1..Len(SaveKeyVocab(seg)) |->
                        ManifestVocab(index, j - 1, SaveKeyVocab(seg)[j])]]

\* Every audio file the loop of save_session writes for one segment.
SegmentWrites(index, seg) ==
    WrittenFiles(SegmentFile(index, Fr), seg.audio_fr)
        \cup WrittenFiles(SegmentFile(index, En), seg.audio_en)
        \cup UNION {WrittenFiles(VocabFile(index, j - 1, Fr), SaveKeyVocab(seg)[j].audio_fr)
                        \cup WrittenFiles(VocabFile(index, j - 1, En),
                                          SaveKeyVocab(seg)[j].audio_en) :
                    j \in 1..Len(SaveKeyVocab(seg))}

SaveRawText(req) == Strip(Or(Or(req.rawText, req.raw_text), <<>>))

SaveTitle(req) == Strip(Or(Or(req.title, req.name), <<>>))

\* The manifest save_session dumps for session_id.
SaveManifest(req, session_id) ==
    [title |-> Or(SaveTitle(req), LessonTitle(session_id)),
     raw_text |-> SaveRawText(req),
     segments |-> [i \in 1..Len(req.segments.items) |->
                       ManifestSegment(i - 1, req.segments.items[i])]]

SaveFiles(req) ==
    FilesOf(UNION {SegmentWrites(i - 1, req.segments.items[i]) :
                   i \in 1..Len(req.segments.items)})

\* [name for name in os.listdir(sessions_dir) if name.isdigit()], as numbers
ExistingIds(dir) == DOMAIN dir

Max(S) == CHOOSE x \in S : \A y \in S : y <= x

\* An allocation by the number of directories.
CountPlusOne(dir) == Cardinality(ExistingIds(dir)) + 1

\* _create_session_directory: max(existing_ids, default=0) + 1
NextId(dir) == Max(ExistingIds(dir) \cup {0}) + 1

\* A removal of the audio files only.
RemoveAudioOnly(dir, id) ==
    [d \in DOMAIN dir |-> IF d = id THEN [dir[d] EXCEPT !.files = NoFiles] ELSE dir[d]]

\* shutil.rmtree(session_dir)
RemoveDir(dir, id) == [d \in DOMAIN dir \ {id} |-> dir[d]]

PutDir(dir, id, content) == [d \in DOMAIN dir \cup {id} |-> IF d = id THEN content ELSE dir[d]]

Forget(h, id) == [d \in DOMAIN h \ {id} |-> h[d]]

\* A response, with the request it answers: the operation, the session id it is
\* about (0 when it has none) and its argument.  reuse marks a save that was
\* given the id of a session deleted before.
Response(op, id, arg, status, body) ==
    [op |-> op, id |-> id, arg |-> arg, status |-> status, body |-> body,
     reuse |-> FALSE]

\* A validation of the text alone.
SaveInvalidTextOnly(req) == SaveRawText(req) = <<>>

\* if not raw_text or not isinstance(segments, list) or not segments
SaveInvalid(req) ==
    SaveRawText(req) = <<>> \/ ~req.segments.isList \/ req.segments.items = <<>>

\* segment.get or vocab.get raises AttributeError on an item that is no dict.
SaveRaises(req) ==
    \E i \in 1..Len(req.segments.items) :
        \/ ~req.segments.items[i].isDict
        \/ \E j \in 1..Len(SaveKeyVocab(req.segments.items[i])) :
               ~SaveKeyVocab(req.segments.items[i])[j].isDict

\* What the session directory holds when the try block of save_session raises:
\* before the first audio file, or with every audio file and a cut manifest.
PartialDir(req, fault) ==
    IF fault = "manifest" THEN [manifest |-> CorruptManifest, files |-> SaveFiles(req)]
    ELSE [manifest |-> NoManifest, files |-> NoFiles]

\* A handler that answers the error and leaves the directory.
KeepFailedSave(dir, id) == dir

\* except Exception: shutil.rmtree(session_dir, ignore_errors=True)
CleanupFailedSave(dir, id) == RemoveDir(dir, id)

\* POST /api/save-session
SaveSession ==
    \E req \in reqs :
        IF SaveInvalid(req)
        THEN /\ last' = Response("save", 0, req, 400, <<>>)
             /\ UNCHANGED <<fs, orig, gone, reqs, cap, dl, build, procs>>
        ELSE \E fault \in {"none", "mkdir", "audio", "manifest", "raise"} :
             /\ NextId(fs) <= cap
             /\ fault = "raise" <=> SaveRaises(req) /\ fault # "mkdir"
             /\ fault = "audio" => SaveFiles(req) # NoFiles
             /\ IF fault = "mkdir"
                THEN \* os.makedirs raises: nothing was created
                     /\ last' = Response("save", 0, req, 500, <<>>)
                     /\ UNCHANGED <<fs, orig, gone>>
                ELSE IF fault \in {"audio", "manifest", "raise"}
                THEN \* the try block raises: the handler removes the directory it made
                     /\ fs' = CleanupFailedSave(
                                  PutDir(fs, NextId(fs), PartialDir(req, fault)), NextId(fs))
                     /\ last' = Response("save", NextId(fs), req, 500, <<>>)
                     /\ gone' = gone \ {NextId(fs)}
                     /\ UNCHANGED orig
                ELSE /\ fs' = PutDir(fs, NextId(fs),
                                     [manifest |-> GoodManifest(SaveManifest(req, NextId(fs))),
                                      files |-> SaveFiles(req)])
                     /\ last' = [Response("save", NextId(fs), req, 200,
                                          SaveManifest(req, NextId(fs)).title)
                                     EXCEPT !.reuse = NextId(fs) \in gone]
                     /\ gone' = gone \ {NextId(fs)}
                     /\ orig' = PutDir(orig, NextId(fs), req)
             /\ UNCHANGED <<reqs, cap, dl, build, procs>>

(***************************** list, load ********************************)

\* A sort without reverse=True.
RECURSIVE SortedAsc(_)
SortedAsc(S) ==
    IF S = {} THEN <<>>
    ELSE LET least == CHOOSE x \in S : \A y \in S : x <= y
         IN  <<least>> \o SortedAsc(S \ {least})

\* sorted(names, key=int, reverse=True)
RECURSIVE SortedDesc(_)
SortedDesc(S) == IF S = {} THEN <<>> ELSE <<Max(S)>> \o SortedDesc(S \ {Max(S)})

\* re.sub(r"\s+", " ", text): every run of whitespace becomes one space
RECURSIVE CollapseSpace(_)
CollapseSpace(s) ==
    IF s = <<>> THEN <<>>
    ELSE IF IsSpace(Head(s))
        THEN <<32>> \o CollapseSpace(LStrip(s))
    ELSE <<Head(s)>> \o CollapseSpace(Tail(s))

PreviewLength == 160

Take(s, n) == SubSeq(s, 1, IF Len(s) < n THEN Len(s) ELSE n)

\* re.sub(r"\s+", " ", raw_text.replace("\n", " ")).strip()[:160]
Preview(raw_text) ==
    Take(Strip(CollapseSpace([i \in 1..Len(raw_text) |->
                                  IF raw_text[i] = 10 THEN 32 ELSE raw_text[i]])),
         PreviewLength)

\* A check of the directory in place of the manifest file.
HasDirectory(dir, id) == id \in DOMAIN dir

\* os.path.isfile(manifest_path)
HasManifestFile(dir, id) == id \in DOMAIN dir /\ dir[id].manifest.state # "absent"

\* json.load(manifest_file) succeeds
Readable(dir, id) == id \in DOMAIN dir /\ dir[id].manifest.state = "ok"

ListEntry(dir, id) ==
    [id |-> id,
     title |-> Strip(Or(dir[id].manifest.doc.title, LessonTitle(id))),
     raw_text |-> Strip(OrEmpty(dir[id].manifest.doc.raw_text)),
     preview |-> Preview(Strip(OrEmpty(dir[id].manifest.doc.raw_text)))]

\* The sessions list_sessions returns.
ListBody(dir) ==
    LET names == SortedDesc(ExistingIds(dir))
        kept  == SelectSeq(names, LAMBDA n : HasManifestFile(dir, n) /\ Readable(dir, n))
    IN  [i \in 1..Len(kept) |-> ListEntry(dir, kept[i])]

\* GET /api/sessions
ListSessions ==
    /\ last' = Response("list", 0, <<>>, 200, ListBody(fs))
    /\ UNCHANGED <<fs, orig, gone, reqs, cap, dl, build, procs>>

LoadVocab(files, vocab) ==
    [id |-> vocab.id,
     french |-> Strip(OrEmpty(vocab.french)),
     english |-> Strip(OrEmpty(vocab.english)),
     audio_fr |-> ReadAudio(files, vocab.audio_fr_file),
     audio_en |-> ReadAudio(files, vocab.audio_en_file)]

LoadSegment(files, segment) ==
    [id |-> segment.id,
     french |-> Strip(OrEmpty(segment.french)),
     english |-> Strip(OrEmpty(segment.english)),
     audio_fr |-> ReadAudio(files, segment.audio_fr_file),
     audio_en |-> ReadAudio(files, segment.audio_en_file),
     key_vocab |-> [j \in 1..Len(segment.key_vocab) |->
                        LoadVocab(files, segment.key_vocab[j])]]

\* The body load_session returns for a readable manifest.
LoadBody(dir, id) ==
    [title |-> Strip(Or(dir[id].manifest.doc.title, LessonTitle(id))),
     raw_text |-> dir[id].manifest.doc.raw_text,
     segments |-> [i \in 1..Len(dir[id].manifest.doc.segments) |->
                       LoadSegment(dir[id].files, dir[id].manifest.doc.segments[i])]]

LoadStatus(dir, id) ==
    IF ~HasManifestFile(dir, id) THEN 404
    ELSE IF ~Readable(dir, id) THEN 500
    ELSE 200

\* GET /api/sessions/<id>
LoadSession ==
    \E id \in 1..cap :
        /\ last' = Response("load", id, <<>>, LoadStatus(fs, id),
                            IF LoadStatus(fs, id) = 200 THEN LoadBody(fs, id) ELSE <<>>)
        /\ UNCHANGED <<fs, orig, gone, reqs, cap, dl, build, procs>>

(***************************** rename, delete ****************************)

\* A title taken without .strip().
UpdateTitleUnstripped(title) == OrEmpty(title)

\* (data.get("title") or "").strip()
UpdateTitle(title) == Strip(OrEmpty(title))

\* A manifest written anew with the title alone.
RetitledAnew(doc, title) == [NoDoc EXCEPT !.title = title]

\* manifest["title"] = title
Retitled(doc, title) == [doc EXCEPT !.title = title]

\* open(manifest_path, "w") has cut the file and json.dump did not finish
CutManifest(content) == [content EXCEPT !.manifest = CorruptManifest]

\* The titles a client sends to rename a session.
RenameTitles == {<<32>>, <<32, 110>>}

\* PATCH /api/sessions/<id>
UpdateSession ==
    \E id \in 1..cap, title \in RenameTitles, fault \in {"none", "read", "write"} :
        /\ UNCHANGED <<gone, reqs, cap, dl, build, procs>>
        /\ IF UpdateTitle(title) = <<>>
           THEN /\ fault = "none"
                /\ last' = Response("rename", id, title, 400, <<>>)
                /\ UNCHANGED fs
           ELSE IF ~HasManifestFile(fs, id)
           THEN /\ fault = "none"
                /\ last' = Response("rename", id, title, 404, <<>>)
                /\ UNCHANGED fs
           ELSE IF ~Readable(fs, id) \/ fault = "read"
           THEN \* json.load, or an open, raises before the file is touched
                /\ fault \in {"none", "read"}
                /\ last' = Response("rename", id, title, 500, <<>>)
                /\ UNCHANGED fs
           ELSE IF fault = "write"
           THEN /\ fs' = [fs EXCEPT ![id] = CutManifest(@)]
                /\ last' = Response("rename", id, title, 500, <<>>)
           ELSE /\ fs' = [fs EXCEPT ![id].manifest =
                              GoodManifest(Retitled(@.doc, UpdateTitle(title)))]
                /\ last' = Response("rename", id, title, 200, UpdateTitle(title))
        /\ orig' = IF fs' = fs THEN orig ELSE Forget(orig, id)

\* os.path.isdir(session_dir)
IsDir(dir, id) == id \in DOMAIN dir

\* What a session directory may hold when shutil.rmtree raises part-way.  The
\* order in which rmtree visits the entries is the file system's: it has removed
\* nothing, the manifest, the audio files, or every entry, and the directory
\* itself is still there.
PartlyRemoved(content) ==
    {[manifest |-> m, files |-> f] :
        m \in {content.manifest, NoManifest}, f \in {content.files, NoFiles}}

\* DELETE /api/sessions/<id>
DeleteSession ==
    \E id \in 1..cap, fault \in {"none", "rmtree"} :
        /\ UNCHANGED <<reqs, cap, dl, build, procs>>
        /\ IF ~IsDir(fs, id)
           THEN /\ fault = "none"
                /\ last' = Response("delete", id, <<>>, 404, <<>>)
                /\ UNCHANGED <<fs, gone>>
           ELSE IF fault = "rmtree"
           THEN /\ \E left \in PartlyRemoved(fs[id]) : fs' = [fs EXCEPT ![id] = left]
                /\ last' = Response("delete", id, <<>>, 500, <<>>)
                /\ UNCHANGED gone
           ELSE /\ fs' = RemoveDir(fs, id)
                /\ last' = Response("delete", id, <<>>, 200, <<>>)
                /\ gone' = gone \cup {id}
        /\ orig' = IF fs' = fs THEN orig ELSE Forget(orig, id)

(***************************** download_lesson_audio **********************)

\* str.lower()
Lower(s) == [i \in 1..Len(s) |-> IF s[i] \in 65..90 THEN s[i] + 32 ELSE s[i]]

FrenchOnly == <<102, 114, 101, 110, 99, 104, 45, 111, 110, 108, 121>>

FrenchEnglish == <<102, 114, 101, 110, 99, 104, 45, 101, 110, 103, 108, 105, 115, 104>>

FrenchKeyVocab ==
    <<102, 114, 101, 110, 99, 104, 45, 107, 101, 121, 45, 118, 111, 99, 97, 98>>

DOWNLOAD_VARIANTS == {FrenchOnly, FrenchEnglish, FrenchKeyVocab}

\* (data.get("variant") or "").strip().lower()
DownloadVariant(variant) == Lower(Strip(OrEmpty(variant)))

\* _get_audio_value: the underscore key when it holds something, else the camel key
GetAudioValue(item, lang) ==
    IF lang = Fr
    THEN (IF Truthy(item.audio_fr) THEN item.audio_fr ELSE item.audioFr)
    ELSE (IF Truthy(item.audio_en) THEN item.audio_en ELSE item.audioEn)

\* _decode_audio_bytes
DecodeAudioBytes(value) ==
    IF ~Truthy(value) THEN None
    ELSE IF b64decode(value) = DecodeError THEN None
    ELSE b64decode(value)

\* _collect_key_vocab
CollectKeyVocab(segment) ==
    IF segment.key_vocab.isList THEN segment.key_vocab.items
    ELSE IF segment.keyVocab.isList THEN segment.keyVocab.items
    ELSE <<>>

\* if audio: combined_audio.extend(audio)
Extend(combined, audio) == IF Truthy(audio) THEN combined \o audio ELSE combined

\* The inner loop of the french-key-vocab branch, from entry j on.
RECURSIVE ExtendVocab(_, _, _)
ExtendVocab(combined, entries, j) ==
    IF j > Len(entries) THEN combined
    ELSE IF ~entries[j].isDict THEN ExtendVocab(combined, entries, j + 1)
    ELSE ExtendVocab(
             Extend(Extend(combined, DecodeAudioBytes(GetAudioValue(entries[j], Fr))),
                    DecodeAudioBytes(GetAudioValue(entries[j], En))),
             entries, j + 1)

\* A french-english branch without the repetition of the French.
ExtendSegmentOnce(combined, variant, segment) ==
    LET audio_fr == DecodeAudioBytes(GetAudioValue(segment, Fr))
        audio_en == DecodeAudioBytes(GetAudioValue(segment, En))
    IN  IF ~segment.isDict THEN combined
        ELSE IF variant = FrenchOnly THEN Extend(combined, audio_fr)
        ELSE IF variant = FrenchEnglish
            THEN Extend(Extend(combined, audio_fr), audio_en)
        ELSE IF variant = FrenchKeyVocab
            THEN Extend(ExtendVocab(Extend(combined, audio_fr),
                                    CollectKeyVocab(segment), 1),
                        audio_fr)
        ELSE combined

\* One turn of the loop over segments_payload.
ExtendSegment(combined, variant, segment) ==
    LET audio_fr == DecodeAudioBytes(GetAudioValue(segment, Fr))
        audio_en == DecodeAudioBytes(GetAudioValue(segment, En))
    IN  IF ~segment.isDict THEN combined
        ELSE IF variant = FrenchOnly THEN Extend(combined, audio_fr)
        ELSE IF variant = FrenchEnglish
            THEN Extend(Extend(Extend(combined, audio_fr), audio_en), audio_fr)
        ELSE IF variant = FrenchKeyVocab
            THEN Extend(ExtendVocab(Extend(combined, audio_fr),
                                    CollectKeyVocab(segment), 1),
                        audio_fr)
        ELSE combined

\* The loop over segments_payload, from segment i on.
RECURSIVE CombinedAudio(_, _, _, _)
CombinedAudio(combined, variant, segments, i) ==
    IF i > Len(segments) THEN combined
    ELSE CombinedAudio(ExtendSegment(combined, variant, segments[i]), variant,
                       segments, i + 1)

DownloadBody(variant, combined) ==
    [audio_base64 |-> b64encode(combined), variant |-> variant]

\* A check that a variant was given at all.
VariantMissing(variant) == variant = <<>>

\* variant not in DOWNLOAD_VARIANTS
VariantUnsupported(variant) == variant \notin DOWNLOAD_VARIANTS

\* A check of the type alone.
SegmentsNotAList(segments) == ~segments.isList

\* not isinstance(segments_payload, list) or not segments_payload
SegmentsMissing(segments) == ~segments.isList \/ segments.items = <<>>

\* POST /api/download-lesson
DownloadLesson ==
    /\ LET variant  == DownloadVariant(dl.variant)
           combined == CombinedAudio(<<>>, variant, dl.segments.items, 1)
       IN  last' =
               IF VariantUnsupported(variant)
               THEN Response("download", 0, dl, 400, "Unsupported download option.")
               ELSE IF SegmentsMissing(dl.segments)
               THEN Response("download", 0, dl, 400,
                             "Segments are required to build the download.")
               ELSE IF combined = <<>>
               THEN Response("download", 0, dl, 422,
                             "Unable to assemble audio with the provided data.")
               ELSE Response("download", 0, dl, 200, DownloadBody(variant, combined))
    /\ UNCHANGED <<fs, orig, gone, reqs, cap, dl, build, procs>>

(***************************** requests **********************************)

\* Audio payloads: base64 of the bytes 65 ("QQ==") and of 66, 67 ("QkM=").
AudioA == <<81, 81, 61, 61>>

AudioB == <<81, 107, 77, 61>>

AudioC == <<82, 65, 61, 61>>

\* "Q Q==": the bytes of AudioA, written with a space inside
AudioSpaced == <<81, 32, 81, 61, 61>>

\* "Q": no base64 at all
AudioBroken == <<81>>

Segment(id, french, english, audio_fr, audio_en) ==
    [isDict |-> TRUE, id |-> id, french |-> french, english |-> english,
     audio_fr |-> audio_fr, audio_en |-> audio_en,
     audioFr |-> None, audioEn |-> None,
     key_vocab |-> NoList, keyVocab |-> NoList]

Vocab(id, french, english, audio_fr, audio_en) ==
    [isDict |-> TRUE, id |-> id, french |-> french, english |-> english,
     audio_fr |-> audio_fr, audio_en |-> audio_en,
     audioFr |-> None, audioEn |-> None]

\* A list item that is no dict (a string, a number)
NotADict == [Segment(NoId, None, None, None, None) EXCEPT !.isDict = FALSE]

SaveRequest(rawText, title, segments) ==
    [rawText |-> rawText, raw_text |-> None, title |-> title, name |-> None,
     segments |-> segments]

\* The requests of the store's life-cycle specification: an untitled lesson of
\* one segment whose text needs trimming, a request without text, and a
\* request whose segment is no dict.
LifecycleRequests ==
    {SaveRequest(<<32, 115, 10, 10, 115>>, None,
                 List(<<Segment(NoId, <<97>>, <<98>>, AudioA, None)>>)),
     SaveRequest(<<32>>, <<116>>,
                 List(<<Segment(NoId, <<97>>, <<98>>, AudioA, None)>>)),
     SaveRequest(<<114>>, <<116>>, List(<<NotADict>>))}

\* The requests the validation of save_session is about: a valid one; no text,
\* an empty text and a blank text; a blank text next to a text under the
\* underscore key; no segments, segments that are no list, and an empty list.
ValidationRequests ==
    {SaveRequest(<<114>>, <<116>>, List(<<Segment(NoId, <<97>>, <<98>>, AudioA, None)>>)),
     SaveRequest(None, <<116>>, List(<<Segment(NoId, <<97>>, <<98>>, AudioA, None)>>)),
     SaveRequest(<<>>, <<116>>, List(<<Segment(NoId, <<97>>, <<98>>, AudioA, None)>>)),
     SaveRequest(<<32, 10>>, <<116>>, List(<<Segment(NoId, <<97>>, <<98>>, AudioA, None)>>)),
     [SaveRequest(<<32>>, <<116>>, List(<<Segment(NoId, <<97>>, <<98>>, AudioA, None)>>))
          EXCEPT !.raw_text = <<114>>],
     SaveRequest(<<114>>, <<116>>, NoList),
     SaveRequest(<<114>>, <<116>>, List(<<>>)),
     SaveRequest(<<32>>, None, List(<<>>))}

\* The segments a client sends: a plain one; one whose texts need trimming, with
\* broken and empty audio and a vocab entry; one in camel case throughout; one
\* with an id of its own, a blank french and spaced base64; and one that is no dict.
SegmentPool ==
    {Segment(NoId, <<97>>, <<98>>, AudioA, AudioB),
     [Segment(NoId, <<32, 97>>, <<98, 32>>, AudioBroken, <<>>) EXCEPT
         !.key_vocab = List(<<Vocab(None, <<32, 99>>, <<100>>, AudioC, None)>>)],
     [Segment(NoId, <<97>>, <<98>>, None, None) EXCEPT
         !.audioFr = AudioA, !.audioEn = AudioB,
         !.keyVocab = List(<<[Vocab(<<120>>, <<99>>, <<100>>, None, None) EXCEPT
                                 !.audioFr = AudioC, !.audioEn = AudioA]>>)],
     Segment(1, <<32>>, <<98>>, AudioSpaced, AudioA),
     NotADict}

MaxSegs == 2

\* Every list of 1 to n items of S.
RECURSIVE ListsUpTo(_, _)
ListsUpTo(S, n) ==
    IF n = 0 THEN {}
    ELSE {<<x>> : x \in S}
             \cup {Append(l, x) : l \in ListsUpTo(S, n - 1), x \in S}

\* The requests of the round-trip specification: every list of pool segments,
\* under a text and a title to trim, under the underscore key with no title,
\* and with a blank text.
RichRequests ==
    {SaveRequest(<<32, 114, 10>>, <<32, 116>>, List(l)) : l \in ListsUpTo(SegmentPool, MaxSegs)}
        \cup {[SaveRequest(None, None, List(l)) EXCEPT !.raw_text = <<114>>] :
                  l \in ListsUpTo(SegmentPool, MaxSegs)}
        \cup {SaveRequest(<<32>>, <<116>>, List(l)) : l \in ListsUpTo(SegmentPool, MaxSegs)}

RoundTripSessions == 1

\* The variants a client asks for: the three supported ones, one of them again
\* in capitals with a space before it, and an unsupported one.
VariantPool ==
    {FrenchOnly, FrenchEnglish, FrenchKeyVocab,
     <<32, 70, 114, 101, 110, 99, 104, 45, 79, 110, 108, 121>>,
     <<109, 112, 51>>}

\* The download requests: every variant of the pool with every list of up to
\* MaxSegs pool segments, with the empty list and with no list.
DownloadRequests ==
    {[variant |-> v, segments |-> g] :
        v \in VariantPool,
        g \in {List(l) : l \in ListsUpTo(SegmentPool, MaxSegs)} \cup {List(<<>>), NoList}}

MaxSessionId == 3

NoDownload == [variant |-> <<>>, segments |-> NoList]

(***************************** generate_audio ****************************)

\* The locals of _build_segments, and where the run stands: "off" before a
\* request, "pair" at the head of the loop over sentence_pairs, "french" and
\* "english" before the two synthesis calls of a pair, "vocab" at the head of
\* the loop over raw_key_vocab, "vocab_fr" and "vocab_en" before the two calls
\* of an entry, "done" once the response is out.  calls is the history of the
\* synthesis calls made, failure the call that raised: "translation",
\* "synthesis", or "malformed" for an answer that is not made of dicts.
NoBuild ==
    [pc |-> "off", pairs |-> <<>>, index |-> 0, vocab_index |-> 0,
     segments |-> <<>>, french_audio |-> None, english_audio |-> None,
     key_vocab_audio |-> <<>>, vocab_fr_audio |-> None, calls |-> <<>>,
     failure |-> "none"]

\* A sentence pair of the translation service's answer.
Pair(french, english, key_vocab) ==
    [isDict |-> TRUE, french |-> french, english |-> english, key_vocab |-> key_vocab]

\* An entry of a pair's key_vocab list.
Gloss(french, english) == [isDict |-> TRUE, french |-> french, english |-> english]

\* (pair.get("french") or "").strip()
PairText(text) == Strip(OrEmpty(text))

\* A check of the french alone.
PairWithoutFrench(pair) == PairText(pair.french) = <<>>

\* not french or not english
PairEmpty(pair) == PairText(pair.french) = <<>> \/ PairText(pair.english) = <<>>

\* _synthesize_audio: the base64 text of the audio the speech service returns
SynthAudio(language) == IF language = "french" THEN AudioA ELSE AudioB

\* The id generate_segment_audio gives an entry: f"{vocab_index}".
VocabIdOfEntry(index, vocab_index) == Str(vocab_index)

\* f"{index}-{vocab_index}"
VocabId(index, vocab_index) == Str(index) \o <<45>> \o Str(vocab_index)

\* key_vocab_audio.append({...})
BuiltVocab(index, vocab_index, vocab, audio_fr, audio_en) ==
    [id |-> VocabId(index, vocab_index),
     french |-> PairText(vocab.french), english |-> PairText(vocab.english),
     audio_fr |-> audio_fr, audio_en |-> audio_en]

\* A segment whose id is the index of the last vocab entry read.
BuiltSegmentVocabId(index, pair, audio_fr, audio_en, key_vocab_audio) ==
    [id |-> Len(key_vocab_audio),
     french |-> PairText(pair.french), english |-> PairText(pair.english),
     audio_fr |-> audio_fr, audio_en |-> audio_en, key_vocab |-> key_vocab_audio]

\* segments.append({...})
BuiltSegment(index, pair, audio_fr, audio_en, key_vocab_audio) ==
    [id |-> index,
     french |-> PairText(pair.french), english |-> PairText(pair.english),
     audio_fr |-> audio_fr, audio_en |-> audio_en, key_vocab |-> key_vocab_audio]

\* A handler that answers an error with the segments built so far.
PartialBody(segments) == segments

\* except ...: return jsonify({"error": ...}), 500: no segment is returned
ErrorBody(segments) == <<>>

\* The response of a build that raised on an item that is no dict, and the end
\* of its run.
BuildFails(arg) ==
    /\ last' = Response("build", 0, arg, 500, ErrorBody(build.segments))
    /\ build' = [build EXCEPT !.pc = "done", !.failure = "malformed"]

\* The texts a client asks to build from.
BuildTexts == {<<32>>, <<115>>}

\* POST /api/generate-audio, up to the answer of the translation service: the
\* call raises, or it returns the list of sentence pairs.
GenerateAudio ==
    /\ build.pc \in {"off", "done"}
    /\ \E text \in BuildTexts, answer \in reqs, raises \in BOOLEAN :
           IF Strip(text) = <<>>
           THEN /\ last' = Response("build", 0, text, 400, <<>>)
                /\ build' = [NoBuild EXCEPT !.pc = "done"]
           ELSE IF raises
           THEN /\ last' = Response("build", 0, text, 500, ErrorBody(<<>>))
                /\ build' = [NoBuild EXCEPT !.pc = "done", !.failure = "translation"]
           ELSE /\ last' = Response("build", 0, text, 0, <<>>)
                /\ build' = [NoBuild EXCEPT !.pc = "pair", !.pairs = answer]
    /\ UNCHANGED <<fs, orig, gone, reqs, cap, dl, procs>>

\* The head of the loop over sentence_pairs, and the return after it.
BuildPair ==
    /\ build.pc = "pair"
    /\ IF build.index >= Len(build.pairs)
       THEN /\ last' = Response("build", 0, last.arg, 200, build.segments)
            /\ build' = [build EXCEPT !.pc = "done"]
       ELSE IF ~build.pairs[build.index + 1].isDict
       THEN BuildFails(last.arg)
       ELSE IF PairEmpty(build.pairs[build.index + 1])
       THEN /\ build' = [build EXCEPT !.index = @ + 1]
            /\ UNCHANGED last
       ELSE /\ build' = [build EXCEPT !.pc = "french"]
            /\ UNCHANGED last
    /\ UNCHANGED <<fs, orig, gone, reqs, cap, dl, procs>>

\* The head of the loop over raw_key_vocab, and segments.append after it.
BuildVocab ==
    /\ build.pc = "vocab"
    /\ LET pair == build.pairs[build.index + 1]
       IN  IF ~pair.key_vocab.isList \/ build.vocab_index >= Len(pair.key_vocab.items)
           THEN /\ build' = [build EXCEPT
                                !.segments = Append(@, BuiltSegment(build.index, pair,
                                                 build.french_audio, build.english_audio,
                                                 build.key_vocab_audio)),
                                !.index = @ + 1, !.pc = "pair"]
                /\ UNCHANGED last
           ELSE IF ~pair.key_vocab.items[build.vocab_index + 1].isDict
           THEN BuildFails(last.arg)
           ELSE IF PairEmpty(pair.key_vocab.items[build.vocab_index + 1])
           THEN /\ build' = [build EXCEPT !.vocab_index = @ + 1]
                /\ UNCHANGED last
           ELSE /\ build' = [build EXCEPT !.pc = "vocab_fr"]
                /\ UNCHANGED last
    /\ UNCHANGED <<fs, orig, gone, reqs, cap, dl, procs>>

\* A run that asks for a pair's English before its French.
SynthCallEnglishFirst(b) ==
    LET pair  == b.pairs[b.index + 1]
        vocab == pair.key_vocab.items[b.vocab_index + 1]
    IN  IF b.pc = "french" THEN [text |-> PairText(pair.english), language |-> "english"]
        ELSE IF b.pc = "english" THEN [text |-> PairText(pair.french), language |-> "french"]
        ELSE IF b.pc = "vocab_fr" THEN [text |-> PairText(vocab.french), language |-> "french"]
        ELSE [text |-> PairText(vocab.english), language |-> "english"]

\* The text and the language of the synthesis call the run stands before.
SynthCall(b) ==
    LET pair  == b.pairs[b.index + 1]
        vocab == pair.key_vocab.items[b.vocab_index + 1]
    IN  IF b.pc = "french" THEN [text |-> PairText(pair.french), language |-> "french"]
        ELSE IF b.pc = "english" THEN [text |-> PairText(pair.english), language |-> "english"]
        ELSE IF b.pc = "vocab_fr" THEN [text |-> PairText(vocab.french), language |-> "french"]
        ELSE [text |-> PairText(vocab.english), language |-> "english"]

\* The locals after the synthesis call returned audio.
Synthesized(b, audio) ==
    IF b.pc = "french" THEN [b EXCEPT !.french_audio = audio, !.pc = "english"]
    ELSE IF b.pc = "english"
        THEN [b EXCEPT !.english_audio = audio, !.key_vocab_audio = <<>>,
                       !.vocab_index = 0, !.pc = "vocab"]
    ELSE IF b.pc = "vocab_fr" THEN [b EXCEPT !.vocab_fr_audio = audio, !.pc = "vocab_en"]
    ELSE [b EXCEPT !.key_vocab_audio =
                       Append(@, BuiltVocab(b.index, b.vocab_index,
                                            b.pairs[b.index + 1].key_vocab.items[b.vocab_index + 1],
                                            b.vocab_fr_audio, audio)),
                   !.vocab_index = @ + 1, !.pc = "vocab"]

\* One call of _synthesize_audio: it returns audio, or it raises and the
\* handler answers the error.
BuildSynthesize ==
    /\ build.pc \in {"french", "english", "vocab_fr", "vocab_en"}
    /\ \E ok \in BOOLEAN :
           IF ok
           THEN /\ build' = [Synthesized(build, SynthAudio(SynthCall(build).language))
                                 EXCEPT !.calls = Append(@, SynthCall(build))]
                /\ UNCHANGED last
           ELSE /\ last' = Response("build", 0, last.arg, 500, ErrorBody(build.segments))
                /\ build' = [build EXCEPT !.pc = "done", !.failure = "synthesis",
                                          !.calls = Append(@, SynthCall(build))]
    /\ UNCHANGED <<fs, orig, gone, reqs, cap, dl, procs>>

\* The pairs a translation service answers with: a full one; one with glosses,
\* the first of them without english; one whose french is blank; one without
\* english; and an item that is no dict.
PairPool ==
    {Pair(<<32, 97>>, <<98>>, NoList),
     Pair(<<99>>, <<100, 32>>,
          List(<<Gloss(<<101>>, None), Gloss(<<32, 102>>, <<103>>)>>)),
     Pair(<<32>>, <<98>>, List(<<Gloss(<<101>>, <<102>>)>>)),
     Pair(<<97>>, None, NoList),
     [Pair(None, None, NoList) EXCEPT !.isDict = FALSE]}

MaxPairs == 2

\* The answers of the translation service: the empty list and every list of
\* up to MaxPairs pool pairs.
TranslationAnswers == {<<>>} \cup ListsUpTo(PairPool, MaxPairs)

(***************************** save_session, concurrently ****************)

\* The workers that handle save_session requests at the same time.
Workers == {1, 2}

\* A worker's request in progress: "idle" before it, "listed" once
\* _create_session_directory has computed next_id, "made" after os.makedirs,
\* "written" after the audio files, "done" once the response is out.  seen is
\* the listing it computed next_id from and fault the storage fault that hit it.
NoWorker ==
    [pc |-> "idle", req |-> SaveRequest(None, None, NoList), session_id |-> 0,
     status |-> 0, seen |-> {}, fault |-> "none"]

NoProcs == [w \in Workers |-> NoWorker]

\* A makedirs without exist_ok: an existing directory raises FileExistsError.
MakeDirsExclusiveRaises(dir, id) == id \in DOMAIN dir

\* os.makedirs(session_dir, exist_ok=True): an existing directory is no error
MakeDirsRaises(dir, id) == FALSE

\* The directory os.makedirs leaves: the one that was there, or an empty one.
MakeDirs(dir, id) ==
    IF id \in DOMAIN dir THEN dir
    ELSE PutDir(dir, id, [manifest |-> NoManifest, files |-> NoFiles])

\* The audio files of a request, written over those of the same name.
WriteAudio(dir, id, req) ==
    [dir EXCEPT ![id].files =
        [f \in DOMAIN @ \cup DOMAIN SaveFiles(req) |->
            IF f \in DOMAIN SaveFiles(req) THEN SaveFiles(req)[f] ELSE @[f]]]

\* json.dump(manifest, manifest_file)
WriteManifest(dir, id, req) ==
    [dir EXCEPT ![id].manifest = GoodManifest(SaveManifest(req, id))]

\* The end of a worker's request: its response is out.
Finished(w, status) == [procs EXCEPT ![w].pc = "done", ![w].status = status]

\* save_session up to next_id: the validation and the listing of the directory
CreateList(w) ==
    /\ procs[w].pc = "idle"
    /\ NextId(fs) <= cap
    /\ \E req \in reqs :
           /\ ~SaveInvalid(req) /\ ~SaveRaises(req)
           /\ procs' = [procs EXCEPT ![w].pc = "listed", ![w].req = req,
                                     ![w].session_id = NextId(fs),
                                     ![w].seen = ExistingIds(fs)]
    /\ UNCHANGED <<fs, last, orig, gone, reqs, cap, dl, build>>

\* os.makedirs(session_dir, exist_ok=True), and the except branch after it
CreateMakeDirs(w) ==
    /\ procs[w].pc = "listed"
    /\ \E fault \in BOOLEAN :
           IF fault \/ MakeDirsRaises(fs, procs[w].session_id)
           THEN /\ procs' = [Finished(w, 500) EXCEPT
                                ![w].fault = IF fault THEN "mkdir" ELSE "none"]
                /\ last' = Response("save", 0, procs[w].req, 500, <<>>)
                /\ UNCHANGED fs
           ELSE /\ fs' = MakeDirs(fs, procs[w].session_id)
                /\ procs' = [procs EXCEPT ![w].pc = "made"]
                /\ UNCHANGED last
    /\ UNCHANGED <<orig, gone, reqs, cap, dl, build>>

\* The loop over segments: the audio files are written; when a write raises,
\* for a fault or for a directory that is gone, the handler removes the
\* directory and answers the error.
CreateWriteAudio(w) ==
    /\ procs[w].pc = "made"
    /\ \E fault \in BOOLEAN :
           LET id == procs[w].session_id
           IN  IF fault \/ (id \notin DOMAIN fs /\ SaveFiles(procs[w].req) # NoFiles)
               THEN /\ fault => SaveFiles(procs[w].req) # NoFiles
                    /\ fs' = CleanupFailedSave(fs, id)
                    /\ procs' = [Finished(w, 500) EXCEPT
                                    ![w].fault = IF fault THEN "audio" ELSE "none"]
                    /\ last' = Response("save", id, procs[w].req, 500, <<>>)
               ELSE /\ fs' = IF id \in DOMAIN fs THEN WriteAudio(fs, id, procs[w].req) ELSE fs
                    /\ procs' = [procs EXCEPT ![w].pc = "written"]
                    /\ UNCHANGED last
    /\ UNCHANGED <<orig, gone, reqs, cap, dl, build>>

\* The manifest is written and the id returned; when the write raises, for a
\* fault or for a directory that is gone, the handler removes the directory
\* and answers the error.
CreateWriteManifest(w) ==
    /\ procs[w].pc = "written"
    /\ \E fault \in BOOLEAN :
           LET id == procs[w].session_id
           IN  IF fault \/ id \notin DOMAIN fs
               THEN /\ fs' = CleanupFailedSave(fs, id)
                    /\ procs' = [Finished(w, 500) EXCEPT
                                    ![w].fault = IF fault THEN "manifest" ELSE "none"]
                    /\ last' = Response("save", id, procs[w].req, 500, <<>>)
               ELSE /\ fs' = WriteManifest(fs, id, procs[w].req)
                    /\ procs' = Finished(w, 200)
                    /\ last' = Response("save", id, procs[w].req, 200,
                                        SaveManifest(procs[w].req, id).title)
    /\ UNCHANGED <<orig, gone, reqs, cap, dl, build>>

\* The requests two clients send at the same time: two lessons with their own
\* titles and audio, the second without a French audio.
RaceRequests ==
    {SaveRequest(<<114>>, <<116>>, List(<<Segment(NoId, <<97>>, <<98>>, AudioA, AudioB)>>)),
     SaveRequest(<<115>>, <<117>>, List(<<Segment(NoId, <<99>>, <<100>>, None, AudioC)>>))}

(***************************** specification *****************************)

Init ==
    /\ fs = <<>>
    /\ last = Response("none", 0, <<>>, 0, <<>>)
    /\ orig = <<>>
    /\ gone = {}
    /\ reqs = LifecycleRequests
    /\ cap = MaxSessionId
    /\ dl = NoDownload
    /\ build = NoBuild
    /\ procs = NoProcs

InitRoundTrip ==
    /\ fs = <<>>
    /\ last = Response("none", 0, <<>>, 0, <<>>)
    /\ orig = <<>>
    /\ gone = {}
    /\ reqs \in {{r} : r \in RichRequests}
    /\ cap = RoundTripSessions
    /\ dl = NoDownload
    /\ build = NoBuild
    /\ procs = NoProcs

InitAssemble ==
    /\ fs = <<>>
    /\ last = Response("none", 0, <<>>, 0, <<>>)
    /\ orig = <<>>
    /\ gone = {}
    /\ reqs = {}
    /\ cap = 0
    /\ dl \in DownloadRequests
    /\ build = NoBuild
    /\ procs = NoProcs

Next ==
    \/ SaveSession
    \/ ListSessions
    \/ LoadSession
    \/ UpdateSession
    \/ DeleteSession

Spec == Init /\ [][Next]_vars

SpecRoundTrip == InitRoundTrip /\ [][Next]_vars

NextAssemble == DownloadLesson

InitBuild ==
    /\ fs = <<>>
    /\ last = Response("none", 0, <<>>, 0, <<>>)
    /\ orig = <<>>
    /\ gone = {}
    /\ reqs = TranslationAnswers
    /\ cap = 0
    /\ dl = NoDownload
    /\ build = NoBuild
    /\ procs = NoProcs

NextBuild ==
    \/ GenerateAudio
    \/ BuildPair
    \/ BuildSynthesize
    \/ BuildVocab

SpecBuild == InitBuild /\ [][NextBuild]_vars

InitRace ==
    /\ fs = <<>>
    /\ last = Response("none", 0, <<>>, 0, <<>>)
    /\ orig = <<>>
    /\ gone = {}
    /\ reqs = RaceRequests
    /\ cap = MaxSessionId
    /\ dl = NoDownload
    /\ build = NoBuild
    /\ procs = NoProcs

NextRace ==
    \E w \in Workers :
        \/ CreateList(w)
        \/ CreateMakeDirs(w)
        \/ CreateWriteAudio(w)
        \/ CreateWriteManifest(w)

SpecRace == InitRace /\ [][NextRace]_vars

SpecAssemble == InitAssemble /\ [][NextAssemble]_vars

\* The store under save and delete requests alone, the save requests being
\* one that is valid and the ones the validation is there for.
InitValidate ==
    /\ fs = <<>>
    /\ last = Response("none", 0, <<>>, 0, <<>>)
    /\ orig = <<>>
    /\ gone = {}
    /\ reqs = ValidationRequests
    /\ cap = MaxSessionId
    /\ dl = NoDownload
    /\ build = NoBuild
    /\ procs = NoProcs

NextValidate ==
    \/ SaveSession
    \/ DeleteSession

SpecValidate == InitValidate /\ [][NextValidate]_vars

(***************************** properties ********************************)

\* The error kinds of the responses.
InvalidArgument == 400

NotFound == 404

EmptyResult == 422

StorageError == 500

Ok == 200

IsBlank(s) == s = None \/ \A i \in 1..Len(s) : IsSpace(s[i])

\* t is s without the whitespace around it.
IsTrimOf(t, s) ==
    \E i \in 0..Len(s) :
        /\ i + Len(t) <= Len(s)
        /\ SubSeq(s, i + 1, i + Len(t)) = t
        /\ \A k \in (1..i) \cup ((i + Len(t) + 1)..Len(s)) : IsSpace(s[k])
        /\ t # <<>> => ~IsSpace(t[1]) /\ ~IsSpace(t[Len(t)])

\* The text a caller gave under a key, "" when it gave none.
Given(x) == IF x = None THEN <<>> ELSE x

\* The blob a caller gave for an audio field, under either of its names.
GivenAudio(item, lang) ==
    IF lang = Fr
    THEN (IF item.audio_fr # None THEN item.audio_fr ELSE item.audioFr)
    ELSE (IF item.audio_en # None THEN item.audio_en ELSE item.audioEn)

\* The vocab list a caller gave, under either of its names.
GivenVocab(seg) ==
    IF seg.key_vocab.isList THEN seg.key_vocab.items
    ELSE IF seg.keyVocab.isList THEN seg.keyVocab.items
    ELSE <<>>

IsBlob(x) == x # None /\ x # <<>> /\ b64decode(x) # DecodeError

\* The loaded field holds the bytes of the blob given, when a blob was given.
SameBlob(given, loaded) ==
    IsBlob(given) => loaded # None /\ b64decode(loaded) = b64decode(given)

SameItem(given, loaded) ==
    /\ IsTrimOf(loaded.french, Given(given.french))
    /\ IsTrimOf(loaded.english, Given(given.english))
    /\ SameBlob(GivenAudio(given, Fr), loaded.audio_fr)
    /\ SameBlob(GivenAudio(given, En), loaded.audio_en)

\* The same, for the blobs given under the underscore names only.
SameItemUnderscore(given, loaded) ==
    /\ IsTrimOf(loaded.french, Given(given.french))
    /\ IsTrimOf(loaded.english, Given(given.english))
    /\ IF IsBlob(given.audio_fr)
       THEN b64decode(loaded.audio_fr) = b64decode(given.audio_fr)
       ELSE loaded.audio_fr = None
    /\ IF IsBlob(given.audio_en)
       THEN b64decode(loaded.audio_en) = b64decode(given.audio_en)
       ELSE loaded.audio_en = None

GivenRawText(req) == IF req.rawText # None THEN req.rawText ELSE Given(req.raw_text)

GivenTitle(req) == IF req.title # None THEN req.title ELSE Given(req.name)

SameHeader(id, req, loaded) ==
    /\ IF IsBlank(GivenTitle(req)) THEN loaded.title = LessonTitle(id)
       ELSE IsTrimOf(loaded.title, GivenTitle(req))
    /\ IsTrimOf(loaded.raw_text, GivenRawText(req))
    /\ Len(loaded.segments) = Len(req.segments.items)
    /\ \A i \in 1..Len(loaded.segments) :
           Len(loaded.segments[i].key_vocab) = Len(GivenVocab(req.segments.items[i]))

\* C1: for every session whose save succeeded and whose directory nothing has
\* touched since, load answers with the title, the raw text and the french and
\* english of every segment and vocab entry as given (up to the whitespace
\* around them, an empty title being "Lesson <id>"), and with the bytes of every
\* audio blob that was given.
C1_RoundTrip ==
    \A id \in DOMAIN orig :
        /\ LoadStatus(fs, id) = Ok
        /\ SameHeader(id, orig[id], LoadBody(fs, id))
        /\ \A i \in 1..Len(orig[id].segments.items) :
               /\ SameItem(orig[id].segments.items[i], LoadBody(fs, id).segments[i])
               /\ \A j \in 1..Len(GivenVocab(orig[id].segments.items[i])) :
                      SameItem(GivenVocab(orig[id].segments.items[i])[j],
                               LoadBody(fs, id).segments[i].key_vocab[j])

\* The round trip of C1 for what save_session reads: the texts, and the blobs
\* given under audio_fr and audio_en; every other audio field loads as None.
C1_UnderscoreRoundTrip ==
    \A id \in DOMAIN orig :
        /\ LoadStatus(fs, id) = Ok
        /\ SameHeader(id, orig[id], LoadBody(fs, id))
        /\ \A i \in 1..Len(orig[id].segments.items) :
               /\ SameItemUnderscore(orig[id].segments.items[i],
                                     LoadBody(fs, id).segments[i])
               /\ \A j \in 1..Len(GivenVocab(orig[id].segments.items[i])) :
                      SameItemUnderscore(GivenVocab(orig[id].segments.items[i])[j],
                                         LoadBody(fs, id).segments[i].key_vocab[j])

\* A session saved from a segment with audio under both of its underscore keys
\* has been loaded.
C1_Loaded ==
    /\ last.op = "load" /\ last.status = Ok /\ last.id \in DOMAIN orig
    /\ \E i \in 1..Len(orig[last.id].segments.items) :
           /\ IsBlob(orig[last.id].segments.items[i].audio_fr)
           /\ IsBlob(orig[last.id].segments.items[i].audio_en)

\* C2: when save_session answers with an error after it was given a directory,
\* that directory is gone.
C2_NoPartialSession ==
    (last.op = "save" /\ last.status = StorageError /\ last.id # 0)
        => last.id \notin DOMAIN fs

\* A save has failed after its directory was made, while another session exists.
C2_FailedSave ==
    /\ last.op = "save" /\ last.status = StorageError /\ last.id # 0
    /\ DOMAIN fs # {}

\* C3: every session directory holds a complete manifest.
C3_DirectoryIffManifest == \A id \in DOMAIN fs : fs[id].manifest.state = "ok"

\* C4: a successful save is given an id no directory has, above every existing
\* directory and right above one of them, or 1 when there is none.
C4_NextId ==
    [][(last'.op = "save" /\ last'.status = Ok /\ fs' # fs) =>
           /\ last'.id \notin DOMAIN fs
           /\ \A d \in DOMAIN fs : d < last'.id
           /\ IF DOMAIN fs = {} THEN last'.id = 1 ELSE last'.id - 1 \in DOMAIN fs
           /\ DOMAIN fs' = DOMAIN fs \cup {last'.id}]_vars

\* Id 1 has been given out again, after the session that had it was deleted.
C4_Reused == last.op = "save" /\ last.status = Ok /\ last.id = 1 /\ last.reuse

ListedIds(body) == [i \in 1..Len(body) |-> body[i].id]

\* C5: list_sessions answers with the sessions whose manifest is there and
\* readable, each once, the highest id first.
C5_List ==
    last.op = "list" =>
        /\ last.status = Ok
        /\ {last.body[i].id : i \in 1..Len(last.body)}
               = {id \in DOMAIN fs : fs[id].manifest.state = "ok"}
        /\ \A i \in 1..Len(last.body) : \A j \in 1..Len(last.body) :
               i < j => last.body[i].id > last.body[j].id

\* Sessions 1, 2 and 3 were made, 2 was deleted, and the list is 3, 1.
C5_ThreeOne ==
    /\ last.op = "list" /\ ListedIds(last.body) = <<3, 1>>
    /\ 2 \in gone

\* C6: a session deleted with success, and whose id no save was given since,
\* loads as not found and is not listed.
C6_DeletedIsGone ==
    \A id \in gone :
        /\ LoadStatus(fs, id) = NotFound
        /\ \A i \in 1..Len(ListBody(fs)) : ListBody(fs)[i].id # id
        /\ (last.op = "load" /\ last.id = id) => last.status = NotFound

\* A deleted session was asked for, while a session with a higher id exists.
C6_LoadAfterDelete ==
    /\ last.op = "load" /\ last.id \in gone /\ last.status = NotFound
    /\ \E d \in DOMAIN fs : d > last.id

\* C7: a rename whose title is blank is answered InvalidArgument and changes
\* nothing in the store.
C7_BlankTitle ==
    [][(last'.op = "rename" /\ IsBlank(last'.arg)) =>
           last'.status = InvalidArgument /\ fs' = fs]_vars

\* A rename with a blank title was refused for a session that exists.
C7_Refused ==
    /\ last.op = "rename" /\ last.status = InvalidArgument /\ IsBlank(last.arg)
    /\ last.id \in DOMAIN fs /\ fs[last.id].manifest.state = "ok"

\* C8: a successful rename leaves every other directory, and the audio files,
\* raw text and segments of its own, as they were, and stores the title; and no
\* step changes the raw text of a manifest that is readable before and after it.
C8_RenameFrame ==
    [][/\ (last'.op = "rename" /\ last'.status = Ok) =>
              /\ DOMAIN fs' = DOMAIN fs
              /\ \A d \in DOMAIN fs \ {last'.id} : fs'[d] = fs[d]
              /\ last'.id \in DOMAIN fs
              /\ fs'[last'.id].files = fs[last'.id].files
              /\ fs'[last'.id].manifest.state = "ok"
              /\ fs'[last'.id].manifest.doc.raw_text = fs[last'.id].manifest.doc.raw_text
              /\ fs'[last'.id].manifest.doc.segments = fs[last'.id].manifest.doc.segments
              /\ IsTrimOf(fs'[last'.id].manifest.doc.title, last'.arg)
       /\ \A d \in DOMAIN fs \cap DOMAIN fs' :
              (fs[d].manifest.state = "ok" /\ fs'[d].manifest.state = "ok")
                  => fs'[d].manifest.doc.raw_text = fs[d].manifest.doc.raw_text]_vars

\* A session with an audio file was renamed while another session exists.
C8_Renamed ==
    /\ last.op = "rename" /\ last.status = Ok
    /\ last.id \in DOMAIN fs /\ fs[last.id].files # NoFiles
    /\ fs[last.id].manifest.doc.title = <<110>>
    /\ \E d \in DOMAIN fs : d # last.id /\ fs[d].manifest.state = "ok"

\* The bytes a step of a recipe appends for an audio field: those of the value
\* under the underscore key, or under the camel key when that one is empty, and
\* nothing when the value is absent or no base64.
Blob(item, lang) ==
    LET snake == IF lang = Fr THEN item.audio_fr ELSE item.audio_en
        camel == IF lang = Fr THEN item.audioFr ELSE item.audioEn
        value == IF snake \in {None, <<>>} THEN camel ELSE snake
    IN  IF IsBlob(value) THEN b64decode(value) ELSE <<>>

RECURSIVE Flatten(_)
Flatten(ss) == IF ss = <<>> THEN <<>> ELSE Head(ss) \o Flatten(Tail(ss))

\* The recipe of a variant for one segment; an item that is no dict adds nothing.
Recipe(variant, seg) ==
    IF ~seg.isDict THEN <<>>
    ELSE IF variant = FrenchOnly THEN Blob(seg, Fr)
    ELSE IF variant = FrenchEnglish THEN Blob(seg, Fr) \o Blob(seg, En) \o Blob(seg, Fr)
    ELSE Blob(seg, Fr)
             \o Flatten([j \in 1..Len(GivenVocab(seg)) |->
                            IF GivenVocab(seg)[j].isDict
                            THEN Blob(GivenVocab(seg)[j], Fr) \o Blob(GivenVocab(seg)[j], En)
                            ELSE <<>>])
             \o Blob(seg, Fr)

Assembled(variant, segments) ==
    Flatten([i \in 1..Len(segments) |-> Recipe(variant, segments[i])])

\* The supported variant a request names, in any case and with any whitespace
\* around it; <<>> when it names none.
Asked(variant) ==
    LET named == {v \in DOWNLOAD_VARIANTS :
                     \E a \in 1..(Len(variant) + 1) :
                         /\ a + Len(v) - 1 <= Len(variant)
                         /\ IsTrimOf(SubSeq(variant, a, a + Len(v) - 1), variant)
                         /\ Lower(SubSeq(variant, a, a + Len(v) - 1)) = v}
    IN  IF named = {} THEN <<>> ELSE CHOOSE v \in named : TRUE

\* C9: a download that asks for a supported variant and whose recipes add up to
\* some bytes is answered with exactly those bytes, the segments in list order.
C9_Assemble ==
    (last.op = "download" /\ Asked(dl.variant) # <<>> /\ dl.segments.isList
        /\ Assembled(Asked(dl.variant), dl.segments.items) # <<>>)
    => /\ last.status = Ok
       /\ last.body.variant = Asked(dl.variant)
       /\ b64decode(last.body.audio_base64)
              = Assembled(Asked(dl.variant), dl.segments.items)

\* One segment with the blobs A and B was assembled as french-english: A, B, A.
C9_ABA ==
    /\ last.op = "download" /\ last.status = Ok
    /\ Asked(dl.variant) = FrenchEnglish
    /\ Len(dl.segments.items) = 1
    /\ dl.segments.items[1].audio_fr = AudioA /\ dl.segments.items[1].audio_en = AudioB
    /\ b64decode(last.body.audio_base64) = <<65, 66, 67, 65>>

\* C10, as claimed: a download that asks for a supported variant and whose
\* recipes add up to nothing is answered EmptyResult, the empty list included.
C10_EmptyResult ==
    (last.op = "download" /\ Asked(dl.variant) # <<>> /\ dl.segments.isList
        /\ Assembled(Asked(dl.variant), dl.segments.items) = <<>>)
    => last.status = EmptyResult

\* C10, amended: with a list of at least one segment, recipes that add up to
\* nothing are answered EmptyResult; an empty list, or no list, is answered
\* InvalidArgument.
C10_EmptyResultOfNonEmptyList ==
    (last.op = "download" /\ Asked(dl.variant) # <<>>)
    => /\ (dl.segments.isList /\ dl.segments.items # <<>>
              /\ Assembled(Asked(dl.variant), dl.segments.items) = <<>>)
          => last.status = EmptyResult
       /\ (~dl.segments.isList \/ dl.segments.items = <<>>)
          => last.status = InvalidArgument

\* A list of two segments without usable audio was answered EmptyResult.
C10_NothingToAssemble ==
    /\ last.op = "download" /\ last.status = EmptyResult
    /\ Len(dl.segments.items) = 2
    /\ \E i \in 1..2 : dl.segments.items[i].isDict

\* C11: a download whose variant names none of the three supported ones is
\* answered InvalidArgument for the variant, whatever its segments are: a list
\* with audio, a list with an item that is no dict, the empty list or no list.
C11_UnsupportedVariant ==
    (last.op = "download" /\ Asked(dl.variant) = <<>>)
    => /\ last.status = InvalidArgument
       /\ last.body = "Unsupported download option."

\* An unsupported variant was refused with a list that has audio to assemble,
\* and so would have been answered with audio under a supported one.
C11_RefusedWithAudio ==
    /\ last.op = "download" /\ last.status = InvalidArgument
    /\ Asked(dl.variant) = <<>>
    /\ dl.segments.isList
    /\ Assembled(FrenchOnly, dl.segments.items) # <<>>
    /\ \E i \in 1..Len(dl.segments.items) : ~dl.segments.items[i].isDict

\* The error kind of a build whose translation or synthesis call raised.
ServiceError == 500

\* A pair, or a vocab entry, whose french or english is empty after trimming.
IsEmptyPair(pair) == IsBlank(pair.french) \/ IsBlank(pair.english)

\* The 0-based positions, in order, of the items of a list that are not empty.
KeptIndexes(items) ==
    LET all == [i \in 1..Len(items) |-> i - 1]
    IN  SelectSeq(all, LAMBDA i : ~IsEmptyPair(items[i + 1]))

\* The glosses of a pair, <<>> when it has no list of them.
Glosses(pair) == IF pair.key_vocab.isList THEN pair.key_vocab.items ELSE <<>>

BuildOk == last.op = "build" /\ last.status = Ok

\* C12, as claimed: the ids of the segments a build returns are 0..n-1.
C12_IdsAreZeroToN ==
    BuildOk => \A k \in 1..Len(last.body) : last.body[k].id = k - 1

\* C12, amended: the ids of the segments a build returns are pairwise distinct
\* and increasing, each the 0-based position of its pair in the translation
\* service's answer, the empty pairs counted.
C12_IdsArePairPositions ==
    BuildOk =>
        /\ [k \in 1..Len(last.body) |-> last.body[k].id] = KeptIndexes(build.pairs)
        /\ \A k \in 1..Len(last.body) : \A l \in 1..Len(last.body) :
               k < l => last.body[k].id < last.body[l].id

\* A build whose first pair was dropped has returned one segment, with id 1.
C12_IdSkipsDroppedPair ==
    /\ BuildOk /\ Len(build.pairs) = 2 /\ IsEmptyPair(build.pairs[1])
    /\ Len(last.body) = 1 /\ last.body[1].id = 1

\* C13: a build returns one segment for each pair that is not empty, in the
\* order of the pairs and with their trimmed texts, and at an empty pair it
\* goes on to the next pair without a call and without an error.
C13_DropsEmptyPairs ==
    [][/\ (last'.op = "build" /\ last'.status = Ok) =>
              /\ Len(last'.body) = Len(KeptIndexes(build'.pairs))
              /\ \A k \in 1..Len(last'.body) :
                     LET pair == build'.pairs[KeptIndexes(build'.pairs)[k] + 1]
                     IN  /\ IsTrimOf(last'.body[k].french, pair.french)
                         /\ IsTrimOf(last'.body[k].english, pair.english)
                         /\ last'.body[k].french # <<>> /\ last'.body[k].english # <<>>
       /\ (/\ build.pc = "pair" /\ build.index < Len(build.pairs)
           /\ build.pairs[build.index + 1].isDict
           /\ IsEmptyPair(build.pairs[build.index + 1])) =>
              /\ build' = [build EXCEPT !.index = @ + 1]
              /\ last' = last]_vars

\* A build whose second pair was dropped has returned the first one.
C13_SecondDropped ==
    /\ BuildOk /\ Len(build.pairs) = 2 /\ IsEmptyPair(build.pairs[2])
    /\ Len(last.body) = 1 /\ last.body[1].id = 0

\* C14: in a build's segments the vocab entries are those glosses of the pair
\* that are not empty, in order, each with the id "<segment id>-<position>",
\* the position counted in the pair's list with the empty glosses in it.
C14_VocabIds ==
    BuildOk =>
        \A k \in 1..Len(last.body) :
            LET glosses == Glosses(build.pairs[last.body[k].id + 1])
                kept    == KeptIndexes(glosses)
                vocab   == last.body[k].key_vocab
            IN  /\ Len(vocab) = Len(kept)
                /\ \A j \in 1..Len(vocab) :
                       /\ vocab[j].id = <<48 + last.body[k].id, 45, 48 + kept[j]>>
                       /\ IsTrimOf(vocab[j].french, glosses[kept[j] + 1].french)
                       /\ IsTrimOf(vocab[j].english, glosses[kept[j] + 1].english)
                /\ \A j \in 1..Len(vocab) : \A l \in 1..Len(vocab) :
                       j # l => vocab[j].id # vocab[l].id

\* A build has returned a segment whose only vocab entry has position 1: the
\* gloss before it was dropped.
C14_VocabIdSkips ==
    /\ BuildOk
    /\ \E k \in 1..Len(last.body) :
           /\ Len(last.body[k].key_vocab) = 1
           /\ last.body[k].key_vocab[1].id = <<48 + last.body[k].id, 45, 49>>
           /\ Len(Glosses(build.pairs[last.body[k].id + 1])) = 2

\* C15: a build in which a translation or a synthesis call raised, or whose
\* translation is malformed, answers an error without a segment, and no build
\* writes to the sessions directory.
C15_NoPartialBuild ==
    /\ fs = <<>>
    /\ build.failure # "none" =>
           /\ last.op = "build" /\ last.status = ServiceError
           /\ last.body = <<>>
           /\ build.pc = "done"
    /\ (last.op = "build" /\ last.status \notin {0, Ok}) => last.body = <<>>

\* A synthesis call raised after a segment had been built.
C15_FailedAfterSegment ==
    /\ build.failure = "synthesis" /\ build.segments # <<>>
    /\ last.op = "build" /\ last.status = ServiceError

\* The manifests that can be read.
Persisted == {id \in DOMAIN fs : fs[id].manifest.state = "ok"}

\* C16: no stored segment, and no stored vocab entry, has an empty french or
\* an empty english.
C16_NoEmptyText ==
    \A id \in Persisted :
        \A i \in 1..Len(fs[id].manifest.doc.segments) :
            LET segment == fs[id].manifest.doc.segments[i]
            IN  /\ segment.french # <<>> /\ segment.english # <<>>
                /\ \A j \in 1..Len(segment.key_vocab) :
                       /\ segment.key_vocab[j].french # <<>>
                       /\ segment.key_vocab[j].english # <<>>

\* C17: the ids of the segments of a stored session are pairwise distinct.
C17_DistinctIds ==
    \A id \in Persisted :
        \A i \in 1..Len(fs[id].manifest.doc.segments) :
            \A k \in 1..Len(fs[id].manifest.doc.segments) :
                i # k => fs[id].manifest.doc.segments[i].id
                             # fs[id].manifest.doc.segments[k].id

\* C18: a load, and a rename with a title that is not blank, of an id without
\* a manifest file, and a delete of an id without a directory, are answered
\* NotFound and leave the sessions directory as it was.
C18_NotFound ==
    [][/\ (/\ last'.op \in {"load", "rename"}
           /\ last'.op = "rename" => ~IsBlank(last'.arg)
           /\ ~(last'.id \in DOMAIN fs /\ fs[last'.id].manifest.state # "absent"))
          => last'.status = NotFound /\ fs' = fs
       /\ (last'.op = "delete" /\ last'.id \notin DOMAIN fs)
          => last'.status = NotFound /\ fs' = fs
       /\ (last'.op \in {"load", "rename", "delete"} /\ last'.status = NotFound)
          => fs' = fs]_vars

\* A rename was answered NotFound for a directory that is there, without a
\* manifest, while another session exists.
C18_RenameOfBareDirectory ==
    /\ last.op = "rename" /\ last.status = NotFound
    /\ last.id \in DOMAIN fs /\ fs[last.id].manifest.state = "absent"
    /\ Persisted # {}

\* An item with what it holds under the camel-case names moved to the
\* underscore names.
UnderscoredItem(item) ==
    [item EXCEPT !.audio_fr = IF item.audio_fr = None THEN item.audioFr ELSE @,
                 !.audio_en = IF item.audio_en = None THEN item.audioEn ELSE @,
                 !.audioFr = None, !.audioEn = None]

UnderscoredVocab(list) ==
    [list EXCEPT !.items = [j \in 1..Len(list.items) |-> UnderscoredItem(list.items[j])]]

UnderscoredSegment(seg) ==
    [UnderscoredItem(seg) EXCEPT
        !.key_vocab = IF seg.key_vocab.isList THEN UnderscoredVocab(seg.key_vocab)
                      ELSE UnderscoredVocab(seg.keyVocab),
        !.keyVocab = NoList]

Underscored(req) ==
    [req EXCEPT !.segments.items =
                    [i \in 1..Len(req.segments.items) |->
                         UnderscoredSegment(req.segments.items[i])]]

\* C19: a session saved from a request loads as the session saved from the
\* same request under the underscore names does.
C19_SameAsUnderscore ==
    \A id \in DOMAIN orig :
        /\ LoadStatus(fs, id) = Ok
        /\ LoadBody(fs, id)
               = LoadBody(PutDir(<<>>, id,
                                 [manifest |-> GoodManifest(SaveManifest(Underscored(orig[id]), id)),
                                  files |-> SaveFiles(Underscored(orig[id]))]),
                          id)

\* C20: two save requests that listed the same directories hold the same id,
\* and the makedirs of a request whose directory is there already does not
\* raise: without a fault the request goes on with that directory.
C20_SameIdRace ==
    [][\A w \in Workers :
           /\ \A v \in Workers :
                  (/\ procs'[w].pc # "idle" /\ procs'[v].pc # "idle"
                   /\ procs'[w].seen = procs'[v].seen)
                  => procs'[w].session_id = procs'[v].session_id
           /\ (/\ procs[w].pc = "listed" /\ procs'[w].pc # "listed"
               /\ procs'[w].fault = "none"
               /\ procs[w].session_id \in DOMAIN fs)
              => procs'[w].pc = "made" /\ fs' = fs]_vars

\* Two save requests with different lessons have both been answered Ok with
\* id 1, and there is one directory.
C20_BothSucceed ==
    /\ \A w \in Workers :
           procs[w].pc = "done" /\ procs[w].status = Ok /\ procs[w].session_id = 1
    /\ procs[1].req # procs[2].req
    /\ procs[1].seen = {} /\ procs[2].seen = {}
    /\ DOMAIN fs = {1}

\* The sessions whose create has been answered with success.
Created ==
    {procs[w].session_id :
         w \in {v \in Workers : procs[v].pc = "done" /\ procs[v].status = Ok}}

\* C21: the step in which a create fails and cleans up leaves every session
\* whose create has been answered with success in place and as it was.
C21_CleanupOwnOnly ==
    [][\A v \in Workers :
           (/\ procs[v].pc # "done" /\ procs'[v].pc = "done"
            /\ procs'[v].status = StorageError)
           => \A id \in Created :
                  id \in DOMAIN fs => id \in DOMAIN fs' /\ fs'[id] = fs[id]]_vars

\* A create was answered with success and its session is gone, removed by the
\* cleanup of the other create, which failed after it.
C21_CreatedThenRemoved ==
    \E w \in Workers : \E v \in Workers :
        /\ procs[w].pc = "done" /\ procs[w].status = Ok
        /\ procs[v].pc = "done" /\ procs[v].status = StorageError
        /\ procs[v].session_id = procs[w].session_id
        /\ procs[w].session_id \notin DOMAIN fs

\* The text of a request is blank: a text of spaces alone, or none and none
\* under the underscore key either.
TextBlank(req) ==
    /\ IsBlank(req.rawText)
    /\ req.rawText \in {None, <<>>} => IsBlank(req.raw_text)

\* C22: a create whose text is blank, or whose segments are not a list with an
\* item, is answered InvalidArgument, and a create answered InvalidArgument
\* leaves the sessions directory as it was: no directory is added and the id
\* of the next create is the one it was.
C22_RejectedBeforeWrite ==
    [][last'.op = "save" =>
           /\ (\/ TextBlank(last'.arg)
               \/ ~last'.arg.segments.isList
               \/ Len(last'.arg.segments.items) = 0)
              => last'.status = InvalidArgument
           /\ last'.status = InvalidArgument
              => /\ fs' = fs /\ DOMAIN fs' = DOMAIN fs
                 /\ NextId(fs') = NextId(fs)]_vars

\* A create with a text and an empty list of segments was refused while
\* sessions 1 and 3 were there.
C22_RefusedEmptyList ==
    /\ last.op = "save" /\ last.status = InvalidArgument
    /\ ~TextBlank(last.arg) /\ last.arg.segments = List(<<>>)
    /\ DOMAIN fs = {1, 3}

\* The two calls an item needs: its French, then its English.
CallsOfItem(item) ==
    <<[text |-> item.french, language |-> "french"],
      [text |-> item.english, language |-> "english"]>>

\* The calls a pair needs: its own two, then those of its glosses that are
\* not empty, in the order of the list.
CallsOfPair(pair) ==
    LET glosses == Glosses(pair)
        kept    == KeptIndexes(glosses)
    IN  CallsOfItem(pair)
            \o Flatten([j \in 1..Len(kept) |-> CallsOfItem(glosses[kept[j] + 1])])

\* The calls a translation answer needs: those of its pairs that are not
\* empty, in the order of the answer.
CallsOfPairs(pairs) ==
    LET kept == KeptIndexes(pairs)
    IN  Flatten([k \in 1..Len(kept) |-> CallsOfPair(pairs[kept[k] + 1])])

\* The number of glosses of the kept pairs that are not empty.
RECURSIVE KeptGlosses(_)
KeptGlosses(pairs) ==
    IF pairs = <<>> THEN 0
    ELSE (IF IsEmptyPair(Head(pairs)) THEN 0
          ELSE Len(KeptIndexes(Glosses(Head(pairs)))))
             + KeptGlosses(Tail(pairs))

\* C23: the synthesis calls of a build are made one after the other in the
\* order of generation: at every moment the calls made so far are the first
\* of the calls the answer needs, each for the trimmed text in its language,
\* and a build that returns has made them all, 2 for each kept pair and 2
\* for each kept gloss, a text that came before being asked for again.
C23_CallsInOrder ==
    LET want == CallsOfPairs(build.pairs)
    IN  /\ Len(build.calls) <= Len(want)
        /\ \A k \in 1..Len(build.calls) :
               /\ build.calls[k].language = want[k].language
               /\ IsTrimOf(build.calls[k].text, want[k].text)
        /\ BuildOk =>
               /\ Len(build.calls) = Len(want)
               /\ Len(build.calls)
                      = 2 * Len(KeptIndexes(build.pairs)) + 2 * KeptGlosses(build.pairs)

\* A build of the same pair twice, each time with one gloss kept and one
\* dropped, has returned after 8 calls, the fifth the same as the first.
C23_SamePairTwice ==
    /\ BuildOk /\ Len(build.pairs) = 2 /\ build.pairs[1] = build.pairs[2]
    /\ Len(Glosses(build.pairs[1])) = 2
    /\ Len(build.calls) = 8
    /\ build.calls[5] = build.calls[1] /\ build.calls[7] = build.calls[3]

\* The directories that hold a manifest file, readable or not.
WithManifest == {id \in DOMAIN fs : fs[id].manifest.state # "absent"}

\* C24: a directory without a manifest is absent for every operation: a list
\* omits it; a load, a rename with a title and a delete of it are answered
\* NotFound; and a create is given the id after the highest directory that
\* holds a manifest.
C24_BareDirectoryIsAbsent ==
    [][/\ \A id \in DOMAIN fs \ WithManifest :
              /\ last'.op = "list" =>
                     \A k \in 1..Len(last'.body) : last'.body[k].id # id
              /\ (/\ last'.op \in {"load", "rename", "delete"} /\ last'.id = id
                  /\ last'.op = "rename" => ~IsBlank(last'.arg))
                 => last'.status = NotFound
       /\ (last'.op = "save" /\ last'.status = Ok)
          => last'.id = Max(WithManifest \cup {0}) + 1]_vars

\* A create was given id 2 while directory 1, without a manifest, was the
\* only one there.
C24_IdAfterBareDirectory ==
    /\ last.op = "save" /\ last.status = Ok /\ last.id = 2
    /\ DOMAIN fs = {1, 2} /\ fs[1].manifest.state = "absent"

\* C25: a rename answered with a storage error leaves a session that could be
\* loaded as it was: it loads as before, title, text and segments, and the
\* list is the one it was.
C25_RenameAllOrNothing ==
    [][(/\ last'.op = "rename" /\ last'.status = StorageError
        /\ LoadStatus(fs, last'.id) = Ok)
       => /\ LoadStatus(fs', last'.id) = Ok
          /\ LoadBody(fs', last'.id) = LoadBody(fs, last'.id)
          /\ ListBody(fs') = ListBody(fs)]_vars

\* A rename was answered with a storage error and the session's manifest is
\* cut: its audio files are there, it is not listed and it does not load.
C25_CutByRename ==
    /\ last.op = "rename" /\ last.status = StorageError
    /\ last.id \in DOMAIN fs /\ fs[last.id].manifest.state = "corrupt"
    /\ fs[last.id].files # NoFiles
    /\ LoadStatus(fs, last.id) = StorageError
    /\ \A k \in 1..Len(ListBody(fs)) : ListBody(fs)[k].id # last.id

=============================================================================
